---------------------------- MODULE Spec2Model ----------------------------
(***************************************************************************)
(* A model of the Daemon class (packages/daemon/src/daemon.ts) and of the  *)
(* generation helpers it uses (genText, genTextWithTools, createPrompt).   *)
(*                                                                         *)
(* JavaScript runs the class on one event loop: every action below is one  *)
(* continuation, i.e. the code that runs between two awaits.               *)
(*                                                                         *)
(* Strings whose content matters only up to equality are TLA+ strings;     *)
(* strings that are built by concatenation (the streamed output) are       *)
(* sequences of chunks, the empty string being <<>>.                       *)
(***************************************************************************)
EXTENDS Integers, Sequences, FiniteSets, TLC

VARIABLES
    models,        \* Daemon.models: ModelProvider[]
    tools,         \* Daemon.tools: ToolProvider[]
    kind,          \* which entry point was called: "message" | "messageWithTools"
    message,       \* the message argument of the call
    opts,          \* the opts argument of the call
    llmCfg,        \* the locals provider, model, apiKey, endpoint of the call
    pc,            \* where the orchestrating code of the call is suspended
    callState,     \* the promise returned to the caller
    callError,     \* the error the promise was rejected with
    failure,       \* the first failure thrown into the call's own code
    lifecycle,     \* the BehaviorSubject's current value
    hasLifecycle,  \* whether the BehaviorSubject has been created
    publishes,     \* the lifecycle.next() calls so far, by the field they set
    calls,         \* the callTool invocations so far
    doneOrder,     \* the callTool invocations in the order they returned
    openSessions,  \* MCP sessions connected and not closed
    remoteCalls,   \* client.callTool requests made to tool servers
    streamOutput,  \* genTextWithTools' accumulator `output`
    streamState,   \* the text stream of genTextWithTools
    timer,         \* the 30 second setTimeout of messageWithTools
    returned,      \* what the caller got at the moment the call settled
    idCounter,     \* the ids nanoid() has handed out
    now,           \* the clock read by new Date()
    observer,      \* the caller's subscription to the returned BehaviorSubject
    registrations, \* the addModelProvider calls so far
    approvals,     \* the generateApproval calls made by the host, with what they returned
    exposedTools   \* the tools handed to genTextWithTools

vars == <<models, tools, kind, message, opts, llmCfg, pc, callState, callError, failure,
          lifecycle, hasLifecycle, publishes, calls, doneOrder, openSessions,
          remoteCalls, streamOutput, streamState, timer, returned, idCounter, now,
          observer, registrations, approvals, exposedTools>>

(***************************************************************************)
(* Bounds of the model.                                                    *)
(***************************************************************************)
MaxTools == 2
MaxChunks == 2
MaxModels == 2
MaxCalls == 1
MaxHooks == 2
MaxApprovals == 2

(***************************************************************************)
(* JavaScript values, as far as callTool's validation looks at them.       *)
(***************************************************************************)
Undefined == "<undefined>"

JSKinds == {"string", "number", "boolean", "array", "object", "null", "undefined"}

\* typeof v
TypeOf(v) ==
    CASE v = "string" -> "string"
      [] v = "number" -> "number"
      [] v = "boolean" -> "boolean"
      [] v = "array" -> "object"
      [] v = "object" -> "object"
      [] v = "null" -> "object"
      [] OTHER -> "undefined"

\* Array.isArray(v)
IsArray(v) == v = "array"

\* a ?? b
Coalesce(a, b) == IF a = Undefined THEN b ELSE a

\* !s for a string or undefined
Falsy(s) == s = Undefined \/ s = ""

(***************************************************************************)
(* callTool's argument check, lines 80-102.  ValidationError is the name   *)
(* of the first declared parameter whose argument is rejected, Undefined   *)
(* when none is.                                                           *)
(***************************************************************************)
\* a check that takes only plain objects for `object`
ParamRejected_Strict(parameter, args) ==
    LET v == IF parameter.name \in DOMAIN args THEN args[parameter.name] ELSE "undefined"
    IN  CASE parameter.type = "string" -> TypeOf(v) # "string"
          [] parameter.type = "number" -> TypeOf(v) # "number"
          [] parameter.type = "boolean" -> TypeOf(v) # "boolean"
          [] parameter.type = "array" -> ~IsArray(v)
          [] parameter.type = "object" -> v # "object"
          [] OTHER -> FALSE

ParamRejected(parameter, args) ==
    LET v == IF parameter.name \in DOMAIN args THEN args[parameter.name] ELSE "undefined"
    IN  CASE parameter.type = "string" -> TypeOf(v) # "string"
          [] parameter.type = "number" -> TypeOf(v) # "number"
          [] parameter.type = "boolean" -> TypeOf(v) # "boolean"
          [] parameter.type = "array" -> ~IsArray(v)
          [] parameter.type = "object" -> TypeOf(v) # "object"
          [] OTHER -> FALSE

\* the position of the last declared parameter whose argument is rejected
FirstRejected_Last(parameters, args, k) ==
    IF \E j \in 1..Len(parameters) : ParamRejected(parameters[j], args)
    THEN CHOOSE j \in 1..Len(parameters) :
            /\ ParamRejected(parameters[j], args)
            /\ \A l \in (j + 1)..Len(parameters) : ~ParamRejected(parameters[l], args)
    ELSE 0

\* the position of the first declared parameter whose argument is rejected,
\* 0 when the loop ends without a throw
RECURSIVE FirstRejected(_, _, _)
FirstRejected(parameters, args, k) ==
    IF k > Len(parameters) THEN 0
    ELSE IF ParamRejected(parameters[k], args) THEN k
    ELSE FirstRejected(parameters, args, k + 1)

ValidationError(tool, args) ==
    LET k == FirstRejected(tool.parameters, args, 1)
    IN  IF k = 0 THEN Undefined ELSE tool.parameters[k].name

\* the tail of the message of the Error thrown for a parameter of a type
MustBe(type) ==
    CASE type = "string" -> " must be a string"
      [] type = "number" -> " must be a number"
      [] type = "boolean" -> " must be a boolean"
      [] type = "array" -> " must be an array"
      [] type = "object" -> " must be an object"

(***************************************************************************)
(* Signing, lines 114-179.  Encodings are tagged wrappers, so that a       *)
(* decode undoes exactly an encode; a signature is determined by the key   *)
(* and the signed bytes.                                                   *)
(***************************************************************************)
character == [name |-> "TestDaemon", identityPrompt |-> Undefined]
keypair == [publicKey |-> "pk", secretKey |-> "sk"]

Base64(bytes) == <<"b64", bytes>>
Base64Decode(text) == text[2]
JSONstringify(obj) == <<"json", obj>>
naclSignDetached(bytes, secretKey) == <<"sig", secretKey, bytes>>

sign(args) == Base64(naclSignDetached(Base64Decode(args.payload), keypair.secretKey))

\* the signed object with the channel as it was passed
Envelope_RawChannel(msg, createdAt, messageId, channelId) ==
    [message |-> msg, createdAt |-> createdAt, messageId |-> messageId,
     channelId |-> channelId]

Envelope(msg, createdAt, messageId, channelId) ==
    [message |-> msg, createdAt |-> createdAt, messageId |-> messageId,
     channelId |-> Coalesce(channelId, "")]

generateApproval(msg, createdAt, messageId, channelId) ==
    sign([payload |-> Base64(JSONstringify(Envelope(msg, createdAt, messageId, channelId)))])

DEFAULT_IDENTITY_PROMPT(name) == <<"You are ", name, ". Keep your responses concise and to the point.">>


(***************************************************************************)
(* Model registry, lines 32-40, and tool registry, lines 42-44.            *)
(***************************************************************************)
\* this.models.find(p => p.provider === name): its index, 0 when there is none
FindProvider(ms, name) ==
    IF \E i \in 1..Len(ms) : ms[i].provider = name
    THEN CHOOSE i \in 1..Len(ms) :
            /\ ms[i].provider = name
            /\ \A j \in 1..(i - 1) : ms[j].provider # name
    ELSE 0

\* a registration that always appends
addModelProviderResult_AlwaysPush(ms, provider) == Append(ms, provider)

addModelProviderResult(ms, provider) ==
    IF FindProvider(ms, provider.provider) # 0
    THEN [i \in 1..Len(ms) |-> IF ms[i].provider = provider.provider THEN provider ELSE ms[i]]
    ELSE Append(ms, provider)

\* a registration that replaces the entries of the same server and name
addSingleToolFromProviderResult_Replace(ts, provider) ==
    IF \E i \in 1..Len(ts) :
          ts[i].serverUrl = provider.serverUrl /\ ts[i].toolName = provider.toolName
    THEN [i \in 1..Len(ts) |->
            IF ts[i].serverUrl = provider.serverUrl /\ ts[i].toolName = provider.toolName
            THEN provider ELSE ts[i]]
    ELSE Append(ts, provider)

addSingleToolFromProviderResult(ts, provider) == Append(ts, provider)

\* a registration that puts the discovered tools in the place of the registry
RegisterAll_Batch(ts, list) == list

\* lines 64-66: the callbacks of toolsList.map run one after the other, each
\* up to its await, which is after the push
RECURSIVE RegisterAll(_, _)
RegisterAll(ts, list) ==
    IF Len(list) = 0 THEN ts
    ELSE RegisterAll(addSingleToolFromProviderResult(ts, Head(list)), Tail(list))

(***************************************************************************)
(* Choice of the LLM, lines 200-224 (message) and 372-395                  *)
(* (messageWithTools): the two copies are the same code.                   *)
(***************************************************************************)
\* Object.keys(arr) of an array: its indices, as strings
ObjectKeys(arr) == [i \in 1..Len(arr) |-> ToString(i - 1)]

\* arr[0], undefined on an empty array
First(arr) == IF Len(arr) = 0 THEN Undefined ELSE arr[1]

NoLlm == [present |-> FALSE, provider |-> Undefined, model |-> Undefined,
          apiKey |-> Undefined, endpoint |-> Undefined]

\* opts?.llm?.<field>
LlmField(llm, field) == IF llm.present THEN llm[field] ELSE Undefined

\* a lookup that takes the first registered provider, whatever its name
FoundField_First(ms, provider, field) ==
    IF Len(ms) = 0 THEN Undefined
    ELSE IF field = "models" THEN First(ms[1].models)
    ELSE ms[1][field]

\* this.models.find(p => p.provider === provider)?.<field>
FoundField(ms, provider, field) ==
    LET i == FindProvider(ms, provider)
    IN  IF i = 0 THEN Undefined
        ELSE IF field = "models" THEN First(ms[i].models)
        ELSE ms[i][field]

ChosenProvider(ms, llm) == Coalesce(LlmField(llm, "provider"), First(ObjectKeys(ms)))

ChosenModel(ms, llm) ==
    Coalesce(LlmField(llm, "model"),
             Coalesce(FoundField(ms, ChosenProvider(ms, llm), "models"), ""))

ChosenApiKey(ms, llm) ==
    Coalesce(LlmField(llm, "apiKey"),
             Coalesce(FoundField(ms, ChosenProvider(ms, llm), "apiKey"), ""))

ChosenEndpoint(ms, llm) ==
    Coalesce(LlmField(llm, "endpoint"),
             Coalesce(FoundField(ms, ChosenProvider(ms, llm), "endpoint"), ""))

\* An Error is the tuple of the pieces of its message; NoError is no error.
NoError == <<>>

\* the checks without the one of lines 200-202
ConfigurationError_NoRegistryCheck(ms, llm) ==
    CASE Falsy(ChosenProvider(ms, llm)) -> <<"No LLM provider chosen">>
      [] Falsy(ChosenModel(ms, llm)) -> <<"No LLM model chosen">>
      [] Falsy(ChosenApiKey(ms, llm)) -> <<"No LLM API key chosen">>
      [] Falsy(ChosenEndpoint(ms, llm)) -> <<"No LLM endpoint chosen">>
      [] OTHER -> NoError

\* the checks with the apiKey looked at before the model
ConfigurationError_KeyBeforeModel(ms, llm) ==
    CASE Len(ObjectKeys(ms)) = 0 /\ ~llm.present -> <<"No model provider added">>
      [] Falsy(ChosenProvider(ms, llm)) -> <<"No LLM provider chosen">>
      [] Falsy(ChosenApiKey(ms, llm)) -> <<"No LLM API key chosen">>
      [] Falsy(ChosenModel(ms, llm)) -> <<"No LLM model chosen">>
      [] Falsy(ChosenEndpoint(ms, llm)) -> <<"No LLM endpoint chosen">>
      [] OTHER -> NoError

\* the error thrown by the checks, NoError when all of them pass
ConfigurationError(ms, llm) ==
    CASE Len(ObjectKeys(ms)) = 0 /\ ~llm.present -> <<"No model provider added">>
      [] Falsy(ChosenProvider(ms, llm)) -> <<"No LLM provider chosen">>
      [] Falsy(ChosenModel(ms, llm)) -> <<"No LLM model chosen">>
      [] Falsy(ChosenApiKey(ms, llm)) -> <<"No LLM API key chosen">>
      [] Falsy(ChosenEndpoint(ms, llm)) -> <<"No LLM endpoint chosen">>
      [] OTHER -> NoError

NoCfg == [provider |-> Undefined, model |-> Undefined, apiKey |-> Undefined,
          endpoint |-> Undefined]

ChosenLlm(ms, llm) ==
    [provider |-> ChosenProvider(ms, llm), model |-> ChosenModel(ms, llm),
     apiKey |-> ChosenApiKey(ms, llm), endpoint |-> ChosenEndpoint(ms, llm)]

(***************************************************************************)
(* llm.ts: the provider switch of genText and genTextWithTools, and        *)
(* createPrompt.                                                           *)
(***************************************************************************)
\* a switch that takes every provider name
SupportedProvider_Any(providerName) == TRUE

SupportedProvider(providerName) == providerName \in {"openai", "openrouter"}

\* `Error generating text: ${e}` around `Unsupported provider: ${provider}`
UnsupportedProviderError(providerName) ==
    <<"Error generating text: ", <<"Unsupported provider: ", providerName>>>>

\* String(x) of a tool result inside Array.prototype.join
JoinLines(entries) == [i \in 1..Len(entries) |-> "[object Object]"]

createPrompt(daemonName, identityPrompt, msg, context, toolLines) ==
    <<"# Name", daemonName, "# Identity Prompt", identityPrompt, "# User Message", msg,
      "# Context", JoinLines(context), "# Tools", JoinLines(toolLines)>>

(***************************************************************************)
(* callTool, lines 69-111.  A call is the record of one invocation:        *)
(*   state    "connecting" (awaiting client.connect), "calling" (awaiting  *)
(*            client.callTool), "done" (returned), "failed" (threw);       *)
(*   session  "none", "open" (connect resolved), "closed" (client.close);  *)
(*   invoked  whether client.callTool was sent.                            *)
(* toolIdx is the position of the tool in this.tools when a stage loop     *)
(* made the call, 0 for a call made by the host.                           *)
(***************************************************************************)
NewCall(stage, toolIdx, tool, args) ==
    [stage |-> stage, toolIdx |-> toolIdx, tool |-> tool, args |-> args,
     state |-> "connecting", session |-> "none", invoked |-> FALSE,
     error |-> NoError, result |-> <<>>]

\* callToolConnected without the argument check
callToolConnected_Unchecked(call) ==
    [call EXCEPT !.session = "open", !.state = "calling", !.invoked = TRUE]

\* line 77 resolved; lines 80-107: the argument check, then the request is sent
callToolConnected(call) ==
    LET k == FirstRejected(call.tool.parameters, call.args, 1)
    IN  IF k = 0
        THEN [call EXCEPT !.session = "open", !.state = "calling", !.invoked = TRUE]
        ELSE [call EXCEPT !.session = "open", !.state = "failed",
                          !.error = <<call.tool.parameters[k].name,
                                      MustBe(call.tool.parameters[k].type)>>]

\* line 77 threw: no session
callToolConnectFailed(call) ==
    [call EXCEPT !.state = "failed", !.error = <<"connect failed">>]

\* line 104 resolved; lines 109-110: close and return the result, which is
\* the i-th answer of a tool server and holds the hook requests `hooks`
callToolReturned(call, i, hooks) ==
    [call EXCEPT !.state = "done", !.session = "closed", !.result = <<"result", i, hooks>>]

\* line 104 threw: line 109 is not reached
callToolRequestFailed(call) ==
    [call EXCEPT !.state = "failed", !.error = <<"request failed">>]

SessionOpen(call) == IF call.session = "open" THEN 1 ELSE 0
Invoked(call) == IF call.invoked THEN 1 ELSE 0

(***************************************************************************)
(* addAllToolsByProvider, lines 46-67.  An invocation is a call record of  *)
(* stage "discovery" whose result is the text the server answered:         *)
(*   kind           "json" (the text is the JSON of a list of tools),      *)
(*                  "text" (it is not), "none" (no answer yet);            *)
(*   mentionsError  whether the text contains "Error";                     *)
(*   tools          the tools of the list.                                 *)
(***************************************************************************)
NoResponse == [kind |-> "none", mentionsError |-> FALSE, tools |-> <<>>]

\* lines 47-54, up to the await of client.connect
discoveryCalled(url) ==
    [NewCall("discovery", 0,
             [serverUrl |-> url, toolName |-> "getDaemonServerInfo", parameters |-> <<>>],
             <<>>) EXCEPT !.result = NoResponse]

\* line 54 resolved; lines 56-59: the request is sent
discoveryConnected(call) ==
    [call EXCEPT !.session = "open", !.state = "calling", !.invoked = TRUE]

\* line 54 threw
discoveryConnectFailed(call) ==
    [call EXCEPT !.state = "failed", !.error = <<"connect failed">>]

\* lines 56-59 threw
discoveryRequestFailed(call) ==
    [call EXCEPT !.state = "failed", !.error = <<"request failed">>]

\* serverInfo[0].text.includes("Error")
IncludesError(text) == text.mentionsError

\* whether JSON.parse(text) returns a list of tools
Parses(text) == text.kind = "json"

\* a discovery that parses the text before it looks for "Error"
DiscoveryError_ParseFirst(text) ==
    IF ~(text.kind = "json") THEN <<"SyntaxError", NoResponse>>
    ELSE IF text.mentionsError THEN <<"Error", text>>
    ELSE NoError

\* lines 60-63: the Error thrown on the answer `text`, NoError when there is
\* none; an Error is here its name and the text it carries
DiscoveryError(text) ==
    IF IncludesError(text) THEN <<"Error", text>>
    ELSE IF ~Parses(text) THEN <<"SyntaxError", NoResponse>>
    ELSE NoError

\* a discovery that closes its session when the server has answered
discoveryAnswered_Closing(call, text) ==
    IF DiscoveryError(text) # NoError
    THEN [call EXCEPT !.state = "failed", !.result = text, !.error = DiscoveryError(text),
                      !.session = "closed"]
    ELSE [call EXCEPT !.state = "done", !.result = text, !.session = "closed"]

\* lines 56-66 after the answer `text`; the session is not closed
discoveryAnswered(call, text) ==
    IF DiscoveryError(text) # NoError
    THEN [call EXCEPT !.state = "failed", !.result = text, !.error = DiscoveryError(text)]
    ELSE [call EXCEPT !.state = "done", !.result = text]

(***************************************************************************)
(* hook, lines 124-153.  A hook invocation is a call record of stage       *)
(* "hook" whose tool is the hook.                                          *)
(***************************************************************************)
\* an internal tool that signs whatever daemonTool names
HookOutput_AlwaysSign(h) == sign(h.daemonArgs)

\* lines 127-131: the internal tool; an unknown daemonTool leaves hookOutput
HookOutput(h) == IF h.daemonTool = "sign" THEN sign(h.daemonArgs) ELSE h.hookOutput

\* lines 143-146: {...hook.hookTool.toolArgs, daemonOutput: hook.hookOutput}
HookArguments(h) == [toolArgs |-> h.hookTool.toolArgs, daemonOutput |-> HookOutput(h)]

\* lines 127-147, up to the await: the internal tool has run, a Client was
\* made (lines 133-139) and client.callTool is called on it; the code has no
\* client.connect, so the call has no session
hookCalled(h) ==
    [NewCall("hook", 0, h, HookArguments(h)) EXCEPT
        !.state = "calling", !.invoked = TRUE]

\* line 141 resolved; line 149
hookReturned(call, i) == [call EXCEPT !.state = "done", !.result = <<"result", i, <<>>>>]

\* line 141 threw; lines 150-152 throw the error on
hookFailed(call) == [call EXCEPT !.state = "failed", !.error = <<"hook request failed">>]

(***************************************************************************)
(* The lifecycle value, lines 231-254.                                     *)
(***************************************************************************)
nanoid(n) == <<"id", n>>

NoLifecycle ==
    [daemonPubkey |-> "", daemonName |-> "", messageId |-> <<>>, message |-> "",
     createdAt |-> 0, approval |-> <<>>, channelId |-> Undefined,
     identityPrompt |-> <<>>, context |-> <<>>, tools |-> <<>>,
     generatedPrompt |-> <<>>, output |-> <<>>, hooks |-> <<>>, hooksLog |-> <<>>,
     actionsLog |-> <<>>, postProcessLog |-> <<>>]

\* a base value without the message text
BaseLifecycle_NoMessage(msg, o, ids, t, tick) ==
    [NoLifecycle EXCEPT !.daemonPubkey = keypair.publicKey, !.daemonName = character.name,
                        !.messageId = nanoid(ids + 1), !.createdAt = t,
                        !.approval = generateApproval(msg, t + tick, nanoid(ids + 2),
                                                      Coalesce(o.channelId, Undefined)),
                        !.channelId = Coalesce(o.channelId, Undefined),
                        !.identityPrompt = DEFAULT_IDENTITY_PROMPT(character.name)]

\* ids: the ids nanoid() has handed out before; t: the clock; tick: by how
\* much the clock has advanced at the second new Date()
BaseLifecycle(msg, o, ids, t, tick) ==
    [daemonPubkey |-> keypair.publicKey,
     daemonName |-> character.name,
     messageId |-> nanoid(ids + 1),
     message |-> msg,
     createdAt |-> t,
     approval |-> generateApproval(msg, t + tick, nanoid(ids + 2),
                                   Coalesce(o.channelId, Undefined)),
     channelId |-> Coalesce(o.channelId, Undefined),
     identityPrompt |-> Coalesce(character.identityPrompt,
                                 DEFAULT_IDENTITY_PROMPT(character.name)),
     context |-> <<>>, tools |-> <<>>, generatedPrompt |-> <<>>, output |-> <<>>,
     hooks |-> <<>>, hooksLog |-> <<>>, actionsLog |-> <<>>, postProcessLog |-> <<>>]

(***************************************************************************)
(* The caller's observer of the BehaviorSubject of line 231: a             *)
(* BehaviorSubject hands its current value to an observer at the moment it *)
(* subscribes, and every later value as it is published.                   *)
(***************************************************************************)
NoObserver == [subscribed |-> FALSE, last |-> NoLifecycle]

\* a Subject without a current value: nothing is delivered on subscription
subscribe_NoReplay(o, value) == [o EXCEPT !.subscribed = TRUE]

\* lifecycleSubject.subscribe(observer)
subscribe(o, value) == [o EXCEPT !.subscribed = TRUE, !.last = value]

(***************************************************************************)
(* The state of one message call, as a record the steps below transform:   *)
(* a step of the code is a function from this record to this record, and   *)
(* an action applies the composition of the steps that run in one          *)
(* continuation.                                                           *)
(***************************************************************************)
Cur ==
    [kind |-> kind, message |-> message, opts |-> opts, llmCfg |-> llmCfg, pc |-> pc,
     callState |-> callState, callError |-> callError, failure |-> failure,
     lifecycle |-> lifecycle, hasLifecycle |-> hasLifecycle, publishes |-> publishes,
     calls |-> calls, doneOrder |-> doneOrder, streamState |-> streamState,
     timer |-> timer, returned |-> returned, observer |-> observer,
     exposedTools |-> exposedTools]

Apply(c) ==
    /\ kind' = c.kind
    /\ message' = c.message
    /\ opts' = c.opts
    /\ llmCfg' = c.llmCfg
    /\ pc' = c.pc
    /\ callState' = c.callState
    /\ callError' = c.callError
    /\ failure' = c.failure
    /\ lifecycle' = c.lifecycle
    /\ hasLifecycle' = c.hasLifecycle
    /\ publishes' = c.publishes
    /\ calls' = c.calls
    /\ doneOrder' = c.doneOrder
    /\ streamState' = c.streamState
    /\ timer' = c.timer
    /\ returned' = c.returned
    /\ observer' = c.observer
    /\ exposedTools' = c.exposedTools

\* what the caller holds when the call settles
Snapshot(c, how) ==
    [how |-> how, value |-> c.lifecycle, publishes |-> c.publishes, pc |-> c.pc,
     streamState |-> c.streamState, streamed |-> streamOutput]

NoReturn ==
    [how |-> "none", value |-> NoLifecycle, publishes |-> <<>>, pc |-> "idle",
     streamState |-> "none", streamed |-> <<>>]

\* BehaviorSubject.next(v): v becomes the current value and every subscribed
\* observer receives it
next(c, v) ==
    [c EXCEPT !.lifecycle = v,
              !.observer = IF @.subscribed THEN [@ EXCEPT !.last = v] ELSE @]

\* a publish that drops the fields of the previous value
Publish_NoSpread(c, field, value) ==
    [next(c, [NoLifecycle EXCEPT ![field] = value]) EXCEPT !.publishes = Append(@, field)]

\* lifecycle.next({...lifecycle.value, [field]: value})
Publish(c, field, value) ==
    [next(c, [c.lifecycle EXCEPT ![field] = value]) EXCEPT !.publishes = Append(@, field)]

\* `Failed at step: ${e}`, lines 349 and 556
Wrap(e) == <<"Failed at step: ", e>>

\* an error thrown into the code of the call while its promise is pending
Thrown(c, e) ==
    IF c.callState = "pending" /\ c.failure = NoError THEN [c EXCEPT !.failure = e] ELSE c

\* a catch that also aborts the calls that are in flight
Reject_Cancels(c, e) ==
    LET c1 == [Thrown(c, e) EXCEPT
                  !.pc = "failed", !.callState = "rejected", !.callError = Wrap(e),
                  !.calls = [i \in 1..Len(@) |->
                               IF @[i].state \in {"connecting", "calling"}
                               THEN [@[i] EXCEPT !.state = "failed",
                                                 !.error = <<"aborted">>]
                               ELSE @[i]]]
    IN  [c1 EXCEPT !.returned = Snapshot(c1, "throw")]

\* the catch of lines 348-350 and 555-557
Reject(c, e) ==
    LET c1 == [Thrown(c, e) EXCEPT !.pc = "failed", !.callState = "rejected",
                                   !.callError = Wrap(e)]
    IN  [c1 EXCEPT !.returned = Snapshot(c1, "throw")]

\* `return lifecycle` (line 347); in messageWithTools `resolve()` (line 534),
\* on which the race of line 548 and then line 554 follow
Finish(c) ==
    LET c1 == [c EXCEPT !.pc = "done",
                        !.callState = IF @ = "pending" THEN "resolved" ELSE @]
    IN  IF c.callState = "pending"
        THEN [c1 EXCEPT !.returned = Snapshot(c1, "return")]
        ELSE c1

\* stages that cannot be switched off
StageEnabled_Always(o, stage) == TRUE

\* opts?.stages?.[stage] ?? true, lines 226-228: opts.stages maps the stages
\* the caller has given a value to that value
StageEnabled(o, stage) == IF stage \in DOMAIN o.stages THEN o.stages[stage] ELSE TRUE

(***************************************************************************)
(* The stage loops and Promise.all.                                        *)
(***************************************************************************)
\* the caller's arguments of the tool spread into the object
StageArgs_CallerArgs == [lifecycle |-> "object", args |-> "object", query |-> "string"]

\* {lifecycle: lifecycle.value, args: opts?.toolArgs?.[key] ?? {}}
StageArgs == [lifecycle |-> "object", args |-> "object"]

AwaitPc(stage) ==
    CASE stage = "context" -> "awaitContext"
      [] stage = "action" -> "awaitActions"
      [] stage = "postProcess" -> "awaitPost"
      [] stage = "hook" -> "awaitHooks"
      [] OTHER -> "nobody"

\* positions of the sequence xs whose element satisfies Test, in order
Positions(xs, Test(_)) == SelectSeq([i \in 1..Len(xs) |-> i], Test)

\* for (const tool of this.tools) if (tool.type === stage) push(this.callTool(...))
StageCalls(ts, stage) ==
    LET idx == Positions(ts, LAMBDA i : ts[i].type = stage)
    IN  [k \in 1..Len(idx) |-> NewCall(stage, idx[k], ts[idx[k]], StageArgs)]

\* the promises of a stage, in the order they were pushed
StagePromises(cs, stage) == Positions(cs, LAMBDA i : cs[i].stage = stage)

\* fulfilled as soon as one promise is
PromiseAllFulfilled_Any(c, stage) ==
    \E i \in 1..Len(c.calls) : c.calls[i].stage = stage /\ c.calls[i].state = "done"

\* Promise.all is fulfilled when every promise is
PromiseAllFulfilled(c, stage) ==
    \A i \in 1..Len(c.calls) : c.calls[i].stage = stage => c.calls[i].state = "done"

\* the results in the order in which the calls returned
PromiseAllResults_CompletionOrder(c, stage) ==
    LET ds == SelectSeq(c.doneOrder, LAMBDA i : c.calls[i].stage = stage)
    IN  [k \in 1..Len(ds) |-> c.calls[ds[k]].result]

\* Promise.all's value: the results in the order of the promises
PromiseAllResults(c, stage) ==
    LET ps == StagePromises(c.calls, stage)
    IN  [k \in 1..Len(ps) |-> c.calls[ps[k]].result]

\* a stage that calls the tools of the registry as it was at the call's entry,
\* which are the tools not named "late"
StartStage_Snapshot(c, stage) ==
    [c EXCEPT !.calls = @ \o StageCalls(SelectSeq(tools, LAMBDA t : t.toolName # "late"),
                                        stage),
              !.pc = AwaitPc(stage)]

\* the registry is read when the stage starts
StartStage(c, stage) ==
    [c EXCEPT !.calls = @ \o StageCalls(tools, stage), !.pc = AwaitPc(stage)]

(***************************************************************************)
(* The pipeline after the base publish, last step first.  message (lines   *)
(* 256-347) and messageWithTools (lines 427-537) share every step but the  *)
(* generation.                                                             *)
(***************************************************************************)
\* lines 340-347, 526-534
PostProcessDone(c) ==
    Finish(Publish(c, "postProcessLog", PromiseAllResults(c, "postProcess")))

\* lines 329-340, 515-526
PostProcessStage(c) ==
    IF StageEnabled(c.opts, "postProcess")
    THEN LET c1 == StartStage(c, "postProcess")
         IN  IF Len(StagePromises(c1.calls, "postProcess")) = 0
             THEN PostProcessDone(c1) ELSE c1
    ELSE Finish(c)

\* hooks whose results are not published
HooksDone_Unlogged(c) == PostProcessStage(c)

\* lines 322-327, 508-513
HooksDone(c) == PostProcessStage(Publish(c, "hooksLog", PromiseAllResults(c, "hook")))

\* lines 311-322, 497-508: actionsLog is published, then this.hook is called
\* for every entry of lifecycle.value.hooks
ActionsDone(c) ==
    LET c1 == Publish(c, "actionsLog", PromiseAllResults(c, "action"))
        hs == c1.lifecycle.hooks
    IN  IF Len(hs) = 0
        THEN HooksDone(c1)
        ELSE [c1 EXCEPT !.calls = @ \o [k \in 1..Len(hs) |-> hookCalled(hs[k])],
                        !.pc = "awaitHooks"]

\* lines 300-311, 486-497
ActionStage(c) ==
    IF StageEnabled(c.opts, "actions")
    THEN LET c1 == StartStage(c, "action")
         IN  IF Len(StagePromises(c1.calls, "action")) = 0
             THEN ActionsDone(c1) ELSE c1
    ELSE PostProcessStage(c)

\* line 466: this.tools.filter(t => t.type === "ondemand")
OnDemandTools(ts) == SelectSeq(ts, LAMBDA t : t.type = "ondemand")

\* a generation that writes the ondemand tools into the lifecycle value and
\* so into the prompt
GenerationStage_ToolsInPrompt(c) ==
    LET v == [c.lifecycle EXCEPT !.tools = OnDemandTools(tools)]
        c1 == Publish(next(c, v), "generatedPrompt",
                      createPrompt(v.daemonName, v.identityPrompt, v.message,
                                   v.context, v.tools))
    IN  IF ~SupportedProvider(c.llmCfg.provider)
        THEN Reject(c1, UnsupportedProviderError(c.llmCfg.provider))
        ELSE IF c.kind = "message"
        THEN [c1 EXCEPT !.pc = "awaitGen"]
        ELSE [c1 EXCEPT !.pc = "streaming", !.streamState = "open", !.timer = "armed",
                        !.exposedTools = OnDemandTools(tools)]

\* a generation that sets no timer
GenerationStage_NoTimer(c) ==
    LET v == c.lifecycle
        c1 == Publish(c, "generatedPrompt",
                      createPrompt(v.daemonName, v.identityPrompt, v.message,
                                   v.context, v.tools))
    IN  IF ~SupportedProvider(c.llmCfg.provider)
        THEN Reject(c1, UnsupportedProviderError(c.llmCfg.provider))
        ELSE IF c.kind = "message"
        THEN [c1 EXCEPT !.pc = "awaitGen"]
        ELSE [c1 EXCEPT !.pc = "streaming", !.streamState = "open",
                        !.exposedTools = OnDemandTools(tools)]

\* lines 275-298 up to the await of genText; lines 446-552 up to the race
GenerationStage(c) ==
    LET v == c.lifecycle
        c1 == Publish(c, "generatedPrompt",
                      createPrompt(v.daemonName, v.identityPrompt, v.message,
                                   v.context, v.tools))
    IN  IF ~SupportedProvider(c.llmCfg.provider)
        THEN Reject(c1, UnsupportedProviderError(c.llmCfg.provider))
        ELSE IF c.kind = "message"
        THEN [c1 EXCEPT !.pc = "awaitGen"]
        ELSE [c1 EXCEPT !.pc = "streaming", !.streamState = "open", !.timer = "armed",
                        !.exposedTools = OnDemandTools(tools)]

\* lines 268-273, 439-444
ContextDone(c) == GenerationStage(Publish(c, "context", PromiseAllResults(c, "context")))

\* lines 256-268, 427-439
ContextStage(c) ==
    IF StageEnabled(c.opts, "context")
    THEN LET c1 == StartStage(c, "context")
         IN  IF Len(StagePromises(c1.calls, "context")) = 0
             THEN ContextDone(c1) ELSE c1
    ELSE GenerationStage(c)

\* a stage's Promise.all was fulfilled
StageDone(c, stage) ==
    CASE stage = "context" -> ContextDone(c)
      [] stage = "action" -> ActionsDone(c)
      [] stage = "postProcess" -> PostProcessDone(c)
      [] stage = "hook" -> HooksDone(c)

\* a stage's Promise.all was rejected: message and the context stage of
\* messageWithTools are inside the try of the call; the other stages of
\* messageWithTools run in the async `complete` callback, whose promise
\* nobody holds
StageRejected(c, stage, e) ==
    IF c.kind = "message" \/ stage = "context"
    THEN Reject(c, e)
    ELSE [Thrown(c, e) EXCEPT !.pc = "crashed"]

\* a join that waits for every call to settle and goes on whatever the outcome
Settled_AllSettled(c, i) ==
    LET call == c.calls[i]
    IN  IF c.pc # AwaitPc(call.stage) THEN c
        ELSE IF \A j \in 1..Len(c.calls) :
                    c.calls[j].stage = call.stage => c.calls[j].state \in {"done", "failed"}
        THEN StageDone(c, call.stage)
        ELSE c

\* call i has settled: what the code awaiting it does next
Settled(c, i) ==
    LET call == c.calls[i]
    IN  IF c.pc # AwaitPc(call.stage) THEN c
        ELSE IF call.state = "failed" THEN StageRejected(c, call.stage, call.error)
        ELSE IF PromiseAllFulfilled(c, call.stage) THEN StageDone(c, call.stage)
        ELSE c

(***************************************************************************)
(* Hooks a tool server asks for.                                           *)
(***************************************************************************)
NoOutput == <<>>

Hooks ==
    {[daemonTool |-> d, daemonArgs |-> [payload |-> Base64(b)],
      hookTool |-> [hookServerUrl |-> "http://localhost:3000", toolName |-> n,
                    toolArgs |-> "object"],
      hookOutput |-> NoOutput] :
        d \in {"sign", "encrypt"}, b \in {<<"tx1">>, <<"tx2">>},
        n \in {"submit", "store"}}

SignHook == CHOOSE h \in Hooks : h.daemonTool = "sign"

\* the hook requests an answer may hold: those of an action tool hold none or
\* one, the others none
ResultHooks(call) == IF call.stage = "action" THEN {<<>>, <<SignHook>>} ELSE {<<>>}

(***************************************************************************)
(* Actions.                                                                *)
(***************************************************************************)
NoOpts == [channelId |-> Undefined, stages |-> <<>>, llm |-> NoLlm]

\* message(message, opts) and messageWithTools(message, opts), from entry to
\* the first await that waits for the outside: lines 199-268 and 371-439
MessageCall(k, msg, o, tick) ==
    /\ pc = "idle"
    /\ LET c0 == [Cur EXCEPT !.kind = k, !.message = msg, !.opts = o,
                             !.callState = "pending"]
           e == ConfigurationError(models, o.llm)
       IN  IF e # NoError
           THEN /\ Apply(Reject(c0, e))
                /\ UNCHANGED <<idCounter, now>>
           ELSE /\ Apply(ContextStage(
                       [c0 EXCEPT !.llmCfg = ChosenLlm(models, o.llm),
                                  !.hasLifecycle = TRUE,
                                  !.lifecycle = BaseLifecycle(msg, o, idCounter, now, tick),
                                  !.publishes = <<"base">>]))
                /\ idCounter' = idCounter + 2
                /\ now' = now + tick
    /\ UNCHANGED <<models, tools, openSessions, remoteCalls, streamOutput, registrations,
                   approvals>>

\* call i moves to the record `call`, and the code awaiting it continues
CallStep(i, call, order) ==
    /\ Apply(Settled([Cur EXCEPT !.calls[i] = call, !.doneOrder = order], i))
    /\ openSessions' = openSessions + SessionOpen(call) - SessionOpen(calls[i])
    /\ remoteCalls' = remoteCalls + Invoked(call) - Invoked(calls[i])
    /\ UNCHANGED <<models, tools, streamOutput, idCounter, now, registrations, approvals>>

ConnectResolved(i) ==
    /\ calls[i].state = "connecting"
    /\ CallStep(i, callToolConnected(calls[i]), doneOrder)

ConnectRejected(i) ==
    /\ calls[i].state = "connecting"
    /\ CallStep(i, callToolConnectFailed(calls[i]), doneOrder)

RequestResolved(i, hooks) ==
    /\ calls[i].state = "calling"
    /\ calls[i].stage # "hook"
    /\ hooks \in ResultHooks(calls[i])
    /\ CallStep(i, callToolReturned(calls[i], i, hooks), Append(doneOrder, i))

RequestRejected(i) ==
    /\ calls[i].state = "calling"
    /\ calls[i].stage # "hook"
    /\ CallStep(i, callToolRequestFailed(calls[i]), doneOrder)

\* the host calls hook(h), lines 124-147
hook(h) ==
    /\ Len(calls) < MaxHooks
    /\ calls' = Append(calls, hookCalled(h))
    /\ remoteCalls' = remoteCalls + 1
    /\ UNCHANGED <<models, tools, kind, message, opts, llmCfg, exposedTools, pc, callState, callError,
                   failure, lifecycle, hasLifecycle, publishes, doneOrder, openSessions,
                   streamOutput, streamState, timer, returned, idCounter, now, observer,
                   registrations, approvals>>

HookResolved(i) ==
    /\ calls[i].state = "calling"
    /\ calls[i].stage = "hook"
    /\ CallStep(i, hookReturned(calls[i], i), Append(doneOrder, i))

HookRejected(i) ==
    /\ calls[i].state = "calling"
    /\ calls[i].stage = "hook"
    /\ CallStep(i, hookFailed(calls[i]), doneOrder)

\* lines 42-44
addSingleToolFromProvider(provider) ==
    /\ Len(tools) < MaxTools
    /\ tools' = addSingleToolFromProviderResult(tools, provider)
    /\ UNCHANGED <<models, kind, message, opts, llmCfg, exposedTools, pc, callState, callError, failure,
                   lifecycle, hasLifecycle, publishes, calls, doneOrder, openSessions,
                   remoteCalls, streamOutput, streamState, timer, returned, idCounter, now,
                   observer, registrations, approvals>>

\* the host calls addAllToolsByProvider(url), lines 46-54
addAllToolsByProvider(url) ==
    /\ Len(calls) < MaxCalls
    /\ calls' = Append(calls, discoveryCalled(url))
    /\ UNCHANGED <<models, tools, kind, message, opts, llmCfg, exposedTools, pc, callState, callError,
                   failure, lifecycle, hasLifecycle, publishes, doneOrder, openSessions,
                   remoteCalls, streamOutput, streamState, timer, returned, idCounter, now,
                   observer, registrations, approvals>>

DiscoveryConnectResolved(i) ==
    /\ calls[i].stage = "discovery"
    /\ calls[i].state = "connecting"
    /\ CallStep(i, discoveryConnected(calls[i]), doneOrder)

DiscoveryConnectRejected(i) ==
    /\ calls[i].stage = "discovery"
    /\ calls[i].state = "connecting"
    /\ CallStep(i, discoveryConnectFailed(calls[i]), doneOrder)

DiscoveryRequestRejected(i) ==
    /\ calls[i].stage = "discovery"
    /\ calls[i].state = "calling"
    /\ CallStep(i, discoveryRequestFailed(calls[i]), doneOrder)

\* the request of lines 56-59 resolved with the text `text`; lines 60-66
DiscoveryRequestResolved(i, text) ==
    /\ calls[i].stage = "discovery"
    /\ calls[i].state = "calling"
    /\ calls' = [calls EXCEPT ![i] = discoveryAnswered(calls[i], text)]
    /\ tools' = IF DiscoveryError(text) # NoError THEN tools
                ELSE RegisterAll(tools, text.tools)
    /\ doneOrder' = Append(doneOrder, i)
    /\ openSessions' = openSessions + SessionOpen(calls'[i]) - SessionOpen(calls[i])
    /\ UNCHANGED <<models, kind, message, opts, llmCfg, exposedTools, pc, callState, callError, failure,
                   lifecycle, hasLifecycle, publishes, remoteCalls,
                   streamOutput, streamState, timer, returned, idCounter, now, observer,
                   registrations, approvals>>

\* the host calls generateApproval, lines 155-179, as the test of the
\* approval does
GenerateApproval(msg, createdAt, messageId, channelId) ==
    /\ Len(approvals) < MaxApprovals
    /\ approvals' = Append(approvals,
                           [message |-> msg, createdAt |-> createdAt,
                            messageId |-> messageId, channelId |-> channelId,
                            approval |-> generateApproval(msg, createdAt, messageId,
                                                          channelId)])
    /\ UNCHANGED <<models, tools, kind, message, opts, llmCfg, exposedTools, pc, callState, callError,
                   failure, lifecycle, hasLifecycle, publishes, calls, doneOrder,
                   openSessions, remoteCalls, streamOutput, streamState, timer, returned,
                   idCounter, now, observer, registrations>>

\* the caller subscribes to the container the call has returned
Subscribe ==
    /\ callState = "resolved"
    /\ ~observer.subscribed
    /\ observer' = subscribe(observer, lifecycle)
    /\ UNCHANGED <<models, tools, kind, message, opts, llmCfg, exposedTools, pc, callState, callError,
                   failure, lifecycle, hasLifecycle, publishes, calls, doneOrder,
                   openSessions, remoteCalls, streamOutput, streamState, timer, returned,
                   idCounter, now, registrations, approvals>>

\* genText returned, lines 288-311: response.choices[0].message.content ?? ""
genTextResolved(text) ==
    /\ pc = "awaitGen"
    /\ Apply(ActionStage(Publish(Cur, "output", text)))
    /\ UNCHANGED <<models, tools, openSessions, remoteCalls, streamOutput, idCounter, now,
                   registrations, approvals>>

\* the request of genText failed, lines 762-764 and 348-350
genTextRejected ==
    /\ pc = "awaitGen"
    /\ Apply(Reject(Cur, <<"Error generating text: ", <<"request failed">>>>))
    /\ UNCHANGED <<models, tools, openSessions, remoteCalls, streamOutput, idCounter, now,
                   registrations, approvals>>

\* the text of the chunk that follows the chunks so far: the k-th chunk of a
\* stream is the text "chunk k"
NextChunk(sofar) == <<"chunk", Len(sofar) + 1>>

\* a stream that hands the subscriber the chunk instead of the total
StreamChunk_Delta(chunk) ==
    /\ streamState = "open"
    /\ Len(streamOutput) < MaxChunks
    /\ chunk = NextChunk(streamOutput)
    /\ streamOutput' = streamOutput \o <<chunk>>
    /\ Apply(Publish(Cur, "output", <<chunk>>))
    /\ UNCHANGED <<models, tools, openSessions, remoteCalls, idCounter, now, registrations,
                   approvals>>

\* a stream that goes on handing out chunks after it has completed
StreamChunk_AfterComplete(chunk) ==
    /\ streamState \in {"open", "complete"}
    /\ Len(streamOutput) < MaxChunks
    /\ chunk = NextChunk(streamOutput)
    /\ streamOutput' = streamOutput \o <<chunk>>
    /\ Apply(Publish(Cur, "output", streamOutput'))
    /\ UNCHANGED <<models, tools, openSessions, remoteCalls, idCounter, now, registrations,
                   approvals>>

\* a chunk of result.textStream, lines 702-704, and the subscriber's next,
\* lines 473-477
StreamChunk(chunk) ==
    /\ streamState = "open"
    /\ Len(streamOutput) < MaxChunks
    /\ chunk = NextChunk(streamOutput)
    /\ streamOutput' = streamOutput \o <<chunk>>
    /\ Apply(Publish(Cur, "output", streamOutput'))
    /\ UNCHANGED <<models, tools, openSessions, remoteCalls, idCounter, now, registrations,
                   approvals>>

\* the stream ended, line 706, and the subscriber's complete, lines 484-535
StreamComplete ==
    /\ streamState = "open"
    /\ Apply(ActionStage([Cur EXCEPT !.streamState = "complete"]))
    /\ UNCHANGED <<models, tools, openSessions, remoteCalls, streamOutput, idCounter, now,
                   registrations, approvals>>

\* a catch that throws the error on to the catch of line 555
ReturnAnyway_Rethrow(c, how) ==
    IF c.callState = "pending"
    THEN LET c1 == [c EXCEPT !.callState = "rejected", !.callError = Wrap(<<how>>)]
         IN  [c1 EXCEPT !.returned = Snapshot(c1, how)]
    ELSE c

\* the catch of lines 549-552 and the return of line 554
ReturnAnyway(c, how) ==
    IF c.callState = "pending"
    THEN LET c1 == [c EXCEPT !.callState = "resolved"]
         IN  [c1 EXCEPT !.returned = Snapshot(c1, how)]
    ELSE c

\* the stream threw, line 708, and the subscriber's error, lines 480-483
StreamError ==
    /\ streamState = "open"
    /\ Apply(ReturnAnyway([Thrown(Cur, <<"stream error">>) EXCEPT
                              !.streamState = "error", !.pc = "streamError"],
                          "streamError"))
    /\ UNCHANGED <<models, tools, openSessions, remoteCalls, streamOutput, idCounter, now,
                   registrations, approvals>>

\* a timer that also stops the code of the completion handler
Timeout_Cancels ==
    /\ timer = "armed"
    /\ Apply([ReturnAnyway([Cur EXCEPT !.timer = "fired"], "timeout") EXCEPT
                  !.pc = "cancelled"])
    /\ UNCHANGED <<models, tools, openSessions, remoteCalls, streamOutput, idCounter, now,
                   registrations, approvals>>

\* the timer of lines 540-544 fires
Timeout ==
    /\ timer = "armed"
    /\ Apply(ReturnAnyway([Cur EXCEPT !.timer = "fired"], "timeout"))
    /\ UNCHANGED <<models, tools, openSessions, remoteCalls, streamOutput, idCounter, now,
                   registrations, approvals>>

\* the host calls callTool(tool, args), lines 69-77
callTool(tool, args) ==
    /\ Len(calls) < MaxCalls
    /\ calls' = Append(calls, NewCall("direct", 0, tool, args))
    /\ UNCHANGED <<models, tools, kind, message, opts, llmCfg, exposedTools, pc, callState, callError,
                   failure, lifecycle, hasLifecycle, publishes, doneOrder, openSessions,
                   remoteCalls, streamOutput, streamState, timer, returned, idCounter, now,
                   observer, registrations, approvals>>

\* lines 32-40
addModelProvider(provider) ==
    /\ pc = "idle"
    /\ Len(addModelProviderResult(models, provider)) <= MaxModels
    /\ registrations <= MaxModels
    /\ models' = addModelProviderResult(models, provider)
    /\ registrations' = registrations + 1
    /\ UNCHANGED <<tools, kind, message, opts, llmCfg, exposedTools, pc, callState, callError,
                   failure, lifecycle, hasLifecycle, publishes, calls, doneOrder,
                   openSessions, remoteCalls, streamOutput, streamState, timer, returned,
                   idCounter, now, observer, approvals>>

(***************************************************************************)
(* Inputs.                                                                 *)
(***************************************************************************)
SeqsUpTo(S, n) == UNION {[1..k -> S] : k \in 0..n}

Kinds == {"message", "messageWithTools"}
ToolRoles == {"context", "action", "postProcess", "ondemand"}
StageNames == {"context", "actions", "postProcess"}

\* a tool of a stage is called with StageArgs: one without parameters passes the
\* argument check, one that declares a parameter `query` does not
NoParameters == <<>>
QueryParameter == <<[name |-> "query", type |-> "string", description |-> "the query"]>>

ToolProviders ==
    {[type |-> r, serverUrl |-> "http://localhost:3000", toolName |-> "tool",
      description |-> "a tool", parameters |-> ps] :
        r \in ToolRoles, ps \in {NoParameters, QueryParameter}}

ToolRegistries == SeqsUpTo(ToolProviders, MaxTools)

OpenAiLlm == [present |-> TRUE, provider |-> "openai", model |-> "gpt-4o-mini",
              apiKey |-> "key", endpoint |-> "https://api.openai.com/v1"]
AnthropicLlm == [present |-> TRUE, provider |-> "anthropic", model |-> "claude",
                 apiKey |-> "key", endpoint |-> "https://api.anthropic.com/v1"]

\* the stages switched off are those opts.stages maps to false
StageChoices == {[s \in off |-> FALSE] : off \in SUBSET StageNames}

PipelineOpts ==
    {[channelId |-> Undefined, stages |-> st, llm |-> l] :
        st \in StageChoices, l \in {NoLlm, OpenAiLlm, AnthropicLlm}}

\* the text each entry point is called with
TestMessage(k) == IF k = "message" THEN "Hello world" ELSE "Greet me by name"

Chunks == {<<"chunk", k>> : k \in 1..MaxChunks}
GeneratedTexts == {<<>>, <<"a">>}

InitCall ==
    /\ kind = "none"
    /\ message = ""
    /\ opts = NoOpts
    /\ llmCfg = NoCfg
    /\ pc = "idle"
    /\ callState = "none"
    /\ callError = NoError
    /\ failure = NoError
    /\ lifecycle = NoLifecycle
    /\ hasLifecycle = FALSE
    /\ publishes = <<>>
    /\ calls = <<>>
    /\ doneOrder = <<>>
    /\ openSessions = 0
    /\ remoteCalls = 0
    /\ streamOutput = <<>>
    /\ streamState = "none"
    /\ timer = "unset"
    /\ returned = NoReturn
    /\ idCounter = 0
    /\ now = 0
    /\ observer = NoObserver
    /\ registrations = 0
    /\ approvals = <<>>
    /\ exposedTools = <<>>

(***************************************************************************)
(* Spec: one message or messageWithTools call on a daemon whose tools have *)
(* been registered, with the tool servers, the LLM and the timer acting in *)
(* any order.                                                              *)
(***************************************************************************)
Init ==
    /\ InitCall
    /\ models = <<>>
    /\ tools \in ToolRegistries

Next ==
    \/ \E k \in Kinds, o \in PipelineOpts : MessageCall(k, TestMessage(k), o, 0)
    \/ \E i \in 1..Len(calls) : ConnectResolved(i)
    \/ \E i \in 1..Len(calls) : ConnectRejected(i)
    \/ \E i \in 1..Len(calls), hooks \in SeqsUpTo(Hooks, 1) : RequestResolved(i, hooks)
    \/ \E i \in 1..Len(calls) : RequestRejected(i)
    \/ \E text \in GeneratedTexts : genTextResolved(text)
    \/ genTextRejected
    \/ \E chunk \in Chunks : StreamChunk(chunk)
    \/ StreamComplete
    \/ StreamError
    \/ Timeout
    \/ Subscribe

Spec == Init /\ [][Next]_vars

\* the pipeline with the one step the runtime is sure to take: the timer of
\* lines 540-544, once set, fires; no server is sure to answer.  The tools
\* are those a stage calls: the ones that pass the argument check and the
\* action tool that does not.
LiveTools ==
    {t \in ToolProviders :
        t.type # "ondemand" /\ (t.parameters = NoParameters \/ t.type = "action")}

InitLive ==
    /\ InitCall
    /\ models = <<>>
    /\ tools \in SeqsUpTo(LiveTools, MaxTools)

SpecLive == InitLive /\ [][Next]_vars /\ WF_vars(Timeout)

(***************************************************************************)
(* SpecEntry: the host registers model providers and then calls message or *)
(* messageWithTools on a daemon without tools; the behaviour ends where    *)
(* the call waits for the LLM.                                             *)
(***************************************************************************)
ProviderNames == {"openai", "anthropic", "0"}

ModelProviders ==
    {[provider |-> n, models |-> ms, apiKey |-> k, endpoint |-> e] :
        n \in ProviderNames, ms \in {<<>>, <<"gpt-4o-mini", "gpt-4o">>},
        k \in {"", "key"}, e \in {"", "https://api.openai.com/v1"}}

EntryLlms ==
    {NoLlm} \cup
    {[present |-> TRUE, provider |-> p, model |-> m, apiKey |-> k, endpoint |-> e] :
        p \in {"", "openai"}, m \in {"", "gpt-4o-mini"},
        k \in {Undefined, "key"}, e \in {Undefined, "https://api.openai.com/v1"}}

EntryOpts ==
    {[channelId |-> ch, stages |-> <<>>, llm |-> l] :
        ch \in {Undefined, "general"}, l \in EntryLlms}

InitEntry ==
    /\ InitCall
    /\ models = <<>>
    /\ tools = <<>>

NextEntry ==
    \/ \E provider \in ModelProviders : addModelProvider(provider)
    \/ \E k \in Kinds, o \in EntryOpts, tick \in {0, 1} : MessageCall(k, "Hello", o, tick)

SpecEntry == InitEntry /\ [][NextEntry]_vars

(***************************************************************************)
(* SpecCallTool: the host calls callTool directly, as the tests do, with   *)
(* tools that declare one parameter `name` and arguments of every kind.    *)
(***************************************************************************)
ParameterTypes == {"string", "number", "boolean", "array", "object", "date"}

\* a tool that declares `name` and then `times`
NameAndTimes ==
    <<[name |-> "name", type |-> "string", description |-> "The name"],
      [name |-> "times", type |-> "number", description |-> "How often"]>>

DirectTools ==
    {[type |-> "ondemand", serverUrl |-> "http://localhost:3000", toolName |-> "hello",
      description |-> "Say hello", parameters |-> ps] :
        ps \in {NoParameters, NameAndTimes} \cup
               {<<[name |-> "name", type |-> t, description |-> "The name"]>> :
                    t \in ParameterTypes}}

\* {}, {name: v} and {name: v, times: w}
DirectArgs ==
    {<<>>} \cup {[n \in {"name"} |-> v] : v \in JSKinds \ {"undefined"}}
           \cup {[name |-> v, times |-> w] : v, w \in {"string", "number"}}

InitCallTool ==
    /\ InitCall
    /\ models = <<>>
    /\ tools = <<>>

NextCallTool ==
    \/ \E tool \in DirectTools, args \in DirectArgs : callTool(tool, args)
    \/ \E i \in 1..Len(calls) : ConnectResolved(i)
    \/ \E i \in 1..Len(calls) : ConnectRejected(i)
    \/ \E i \in 1..Len(calls) : RequestResolved(i, <<>>)
    \/ \E i \in 1..Len(calls) : RequestRejected(i)

SpecCallTool == InitCallTool /\ [][NextCallTool]_vars

(***************************************************************************)
(* SpecHook: the host calls hook directly.                                 *)
(***************************************************************************)
InitHook ==
    /\ InitCall
    /\ models = <<>>
    /\ tools = <<>>

NextHook ==
    \/ \E h \in Hooks : hook(h)
    \/ \E i \in 1..Len(calls) : HookResolved(i)
    \/ \E i \in 1..Len(calls) : HookRejected(i)

SpecHook == InitHook /\ [][NextHook]_vars

(***************************************************************************)
(* SpecTools: the host registers tools one by one and by discovery, the    *)
(* server answering the discovery with any of Responses.                   *)
(***************************************************************************)
HelloTool ==
    [serverUrl |-> "http://localhost:3000", toolName |-> "hello", type |-> "ondemand",
     description |-> "Say hello",
     parameters |-> <<[name |-> "name", type |-> "string",
                       description |-> "The name to say hello to"]>>]

Descriptors ==
    {HelloTool,
     [HelloTool EXCEPT !.description = "Say hello again"],
     [HelloTool EXCEPT !.toolName = "memory", !.type = "context", !.parameters = <<>>]}

Responses ==
    {[kind |-> "json", mentionsError |-> e, tools |-> ts] :
        e \in BOOLEAN, ts \in SeqsUpTo(Descriptors, 2)}
    \cup {[kind |-> "text", mentionsError |-> e, tools |-> <<>>] : e \in BOOLEAN}

InitTools ==
    /\ InitCall
    /\ models = <<>>
    /\ tools = <<>>

NextTools ==
    \/ \E provider \in Descriptors : addSingleToolFromProvider(provider)
    \/ addAllToolsByProvider("http://localhost:3000")
    \/ \E i \in 1..Len(calls) : DiscoveryConnectResolved(i)
    \/ \E i \in 1..Len(calls) : DiscoveryConnectRejected(i)
    \/ \E i \in 1..Len(calls), text \in Responses : DiscoveryRequestResolved(i, text)
    \/ \E i \in 1..Len(calls) : DiscoveryRequestRejected(i)

SpecTools == InitTools /\ [][NextTools]_vars

(***************************************************************************)
(* SpecRegister: the host makes one call, with every stage enabled, on a   *)
(* daemon with at most one tool, and registers tools named "late" while    *)
(* the call runs.                                                          *)
(***************************************************************************)
LateTools ==
    {[type |-> r, serverUrl |-> "http://localhost:3000", toolName |-> "late",
      description |-> "a tool", parameters |-> NoParameters] : r \in ToolRoles}

EarlyRegistries ==
    SeqsUpTo({t \in ToolProviders : t.parameters = NoParameters}, MaxTools - 1)

InitRegister ==
    /\ InitCall
    /\ models = <<>>
    /\ tools \in EarlyRegistries

NextRegister ==
    \/ \E k \in Kinds : MessageCall(k, TestMessage(k), [NoOpts EXCEPT !.llm = OpenAiLlm], 0)
    \/ \E provider \in LateTools : hasLifecycle /\ addSingleToolFromProvider(provider)
    \/ \E i \in 1..Len(calls) : ConnectResolved(i)
    \/ \E i \in 1..Len(calls) : ConnectRejected(i)
    \/ \E i \in 1..Len(calls) : RequestResolved(i, <<>>)
    \/ \E i \in 1..Len(calls) : RequestRejected(i)
    \/ \E text \in GeneratedTexts : genTextResolved(text)
    \/ genTextRejected
    \/ \E chunk \in Chunks : StreamChunk(chunk)
    \/ StreamComplete
    \/ StreamError
    \/ Timeout

SpecRegister == InitRegister /\ [][NextRegister]_vars

(***************************************************************************)
(* SpecApproval: the host calls generateApproval with and without a        *)
(* channel.                                                                *)
(***************************************************************************)
ApprovalChannels == {Undefined, "", "general"}

InitApproval ==
    /\ InitCall
    /\ models = <<>>
    /\ tools = <<>>

NextApproval ==
    \E msg \in {"Test message", "Hello"}, createdAt \in {0, 1},
       messageId \in {nanoid(1), nanoid(2)}, channelId \in ApprovalChannels :
        GenerateApproval(msg, createdAt, messageId, channelId)

SpecApproval == InitApproval /\ [][NextApproval]_vars

(***************************************************************************)
(* Properties.                                                             *)
(***************************************************************************)
Range(xs) == {xs[i] : i \in 1..Len(xs)}
Published(field) == field \in Range(publishes)
CallsOf(stage) == {i \in 1..Len(calls) : calls[i].stage = stage}
InFlight(i) == calls[i].state \in {"connecting", "calling"}
AllSettled == \A i \in 1..Len(calls) : ~InFlight(i)
NonEmptyProvider(p) == Len(p.models) > 0 /\ p.models[1] # "" /\ p.apiKey # "" /\ p.endpoint # ""

\* C1 (SpecEntry): a call without llm override on a registry whose first
\* provider has a first model, an apiKey and an endpoint passes the four
\* checks with that provider's name and first model and makes the base publish.
C1_FirstProviderChosen ==
    (callState # "none" /\ ~opts.llm.present /\ Len(models) >= 1
        /\ NonEmptyProvider(models[1]))
    => /\ hasLifecycle
       /\ llmCfg.provider = models[1].provider
       /\ llmCfg.model = models[1].models[1]

\* C2 (Spec): a call into whose code a failure was thrown while it was pending
\* (a stage tool, the generation, the stream, the configuration) is never
\* resolved: it is rejected with the error that wraps the failure.
C2_FailureRejects ==
    /\ callState = "resolved" => failure = NoError
    /\ (failure # NoError /\ callState = "rejected") => callError = Wrap(failure)

\* C3 (Spec), as claimed: when the timer fires before the stream has completed,
\* messageWithTools resolves with the container, whose output is then the
\* non-empty text streamed so far, and actionsLog and postProcessLog have not
\* been published.
C3_TimeoutReturnsNonEmptyPartial ==
    (returned.how = "timeout" /\ returned.streamState = "open")
    => /\ callState = "resolved"
       /\ returned.value.output = returned.streamed
       /\ returned.value.output # <<>>
       /\ "actionsLog" \notin Range(returned.publishes)
       /\ "postProcessLog" \notin Range(returned.publishes)

\* C3 (Spec), amended: as above, but the output is the text streamed so far,
\* which is empty when no chunk has arrived.
C3_TimeoutReturnsPartial ==
    (returned.how = "timeout" /\ returned.streamState = "open")
    => /\ callState = "resolved"
       /\ returned.value.output = returned.streamed
       /\ "actionsLog" \notin Range(returned.publishes)
       /\ "postProcessLog" \notin Range(returned.publishes)
       /\ returned.value.actionsLog = <<>>
       /\ returned.value.postProcessLog = <<>>

C3_Witness ==
    /\ returned.how = "timeout"
    /\ returned.streamState = "open"
    /\ callState = "resolved"
    /\ Len(returned.value.output) > 0
    /\ Len(returned.value.output) < MaxChunks

\* C4 (Spec): once the timer has won the race, no action or postProcess tool
\* has been or is ever called for that lifecycle, and actionsLog, hooksLog and
\* postProcessLog are not published, before or after the return.
C4_TimeoutSkipsStages ==
    returned.how = "timeout"
    => /\ CallsOf("action") = {}
       /\ CallsOf("postProcess") = {}
       /\ ~Published("actionsLog")
       /\ ~Published("hooksLog")
       /\ ~Published("postProcessLog")

\* C5 (SpecCallTool), as claimed: a call whose argument fails the declared type
\* of its parameter opens no session and sends no request.
C5_NoNetworkBeforeValidation ==
    \A i \in 1..Len(calls) :
        ValidationError(calls[i].tool, calls[i].args) # Undefined
        => /\ calls[i].session = "none"
           /\ ~calls[i].invoked

\* C5 (SpecCallTool), amended: a call whose argument fails the declared type of
\* its parameter never sends the request (the request counter does not count
\* it), and once its session is open it has failed with the error that names
\* the parameter; the session is opened before the check.
C5_NoRequestBeforeValidation ==
    /\ \A i \in 1..Len(calls) :
          ValidationError(calls[i].tool, calls[i].args) # Undefined
          => /\ ~calls[i].invoked
             /\ calls[i].state \in {"connecting", "failed"}
             /\ calls[i].session \in {"none", "open"}
             /\ calls[i].session = "open"
                => /\ calls[i].state = "failed"
                   /\ calls[i].error[1] = ValidationError(calls[i].tool, calls[i].args)
    /\ remoteCalls =
          Cardinality({i \in 1..Len(calls) :
                          /\ ValidationError(calls[i].tool, calls[i].args) = Undefined
                          /\ calls[i].state \in {"calling", "done"}
                             \/ (calls[i].state = "failed" /\ calls[i].invoked)})

C5_Witness ==
    \E i \in 1..Len(calls) :
        /\ Len(calls[i].tool.parameters) = 1
        /\ calls[i].tool.parameters[1].type = "number"
        /\ "name" \in DOMAIN calls[i].args
        /\ calls[i].args["name"] = "string"
        /\ calls[i].state = "failed"
        /\ calls[i].session = "open"
        /\ remoteCalls = 0

\* C6 (SpecCallTool): when every callTool invocation has settled, no session
\* is open.
C6_SessionsClosed == AllSettled => openSessions = 0

\* C7 (Spec), as claimed: no context call is in flight once generatedPrompt is
\* published; an action call exists only after the generation has settled;
\* hooks are dispatched only after actionsLog is published; a postProcess call
\* exists only after hooksLog is published.
C7_StagesSequentialAsClaimed ==
    /\ \A i \in CallsOf("context") : InFlight(i) => ~Published("generatedPrompt")
    /\ CallsOf("action") # {}
       => IF kind = "message" THEN Published("output") ELSE streamState = "complete"
    /\ (pc = "awaitHooks" \/ Published("hooksLog")) => Published("actionsLog")
    /\ CallsOf("postProcess") # {} => Published("hooksLog")

\* C7 (Spec), amended: as above, but a postProcess call exists only after
\* hooksLog is published when the action stage is enabled, and only after
\* the generation has settled when it is not.
C7_StagesSequential ==
    /\ \A i \in CallsOf("context") : InFlight(i) => ~Published("generatedPrompt")
    /\ CallsOf("action") # {}
       => IF kind = "message" THEN Published("output") ELSE streamState = "complete"
    /\ (pc = "awaitHooks" \/ Published("hooksLog")) => Published("actionsLog")
    /\ CallsOf("postProcess") # {}
       => /\ StageEnabled(opts, "actions") => Published("hooksLog")
          /\ IF kind = "message" THEN Published("output") ELSE streamState = "complete"
          /\ \A i \in CallsOf("action") : ~InFlight(i)

C7_Witness ==
    /\ CallsOf("action") # {}
    /\ \E i \in CallsOf("postProcess") : InFlight(i)
    /\ Published("hooksLog")

\* the field a stage publishes
LogField(stage) ==
    CASE stage = "context" -> "context"
      [] stage = "action" -> "actionsLog"
      [] stage = "postProcess" -> "postProcessLog"

\* C8 (Spec): a published context, actionsLog or postProcessLog has one entry
\* per tool of that role in the registry, the k-th entry being the result of
\* the call made for the k-th such tool, whatever the order of completion.
C8_ResultsInRegistrationOrder ==
    \A stage \in {"context", "action", "postProcess"} :
        Published(LogField(stage))
        => LET idx == Positions(tools, LAMBDA t : tools[t].type = stage)
               log == lifecycle[LogField(stage)]
           IN  /\ Len(log) = Len(idx)
               /\ \A k \in 1..Len(idx) :
                     \E i \in CallsOf(stage) :
                         /\ calls[i].toolIdx = idx[k]
                         /\ calls[i].state = "done"
                         /\ log[k] = calls[i].result

C8_Witness ==
    /\ Published("context")
    /\ Len(lifecycle.context) = 2
    /\ doneOrder = <<2, 1>>

LaterStages(stage) ==
    CASE stage = "context" -> {"action", "postProcess"}
      [] stage = "action" -> {"postProcess"}
      [] stage = "postProcess" -> {}

\* C9 (Spec): a stage's field is published only when every call of the stage
\* has succeeded; when a call of a stage has failed, the field of that stage is
\* not published and holds no partial result, no tool of a later stage is
\* called, and a message call is rejected with the wrapped error.
C9_JoinAllOrFailFast ==
    \A stage \in {"context", "action", "postProcess"} :
        /\ Published(LogField(stage))
           => \A i \in CallsOf(stage) : calls[i].state = "done"
        /\ (\E i \in CallsOf(stage) : calls[i].state = "failed")
           => /\ ~Published(LogField(stage))
              /\ lifecycle[LogField(stage)] = <<>>
              /\ \A later \in LaterStages(stage) : CallsOf(later) = {}
              /\ kind = "message"
                 => /\ callState = "rejected"
                    /\ callError = Wrap(failure)
                    /\ \E i \in CallsOf(stage) : failure = calls[i].error

C9_Witness ==
    /\ kind = "message"
    /\ \E i, j \in CallsOf("action") : calls[i].state = "failed" /\ calls[j].state = "done"
    /\ callState = "rejected"

\* C10 (SpecEntry): the approval of the published lifecycle is the signature
\* over the envelope made of the message, createdAt, messageId and channelId
\* of that same lifecycle.
C10_ApprovalSignsPublishedFields ==
    hasLifecycle
    => lifecycle.approval =
          generateApproval(lifecycle.message, lifecycle.createdAt, lifecycle.messageId,
                           lifecycle.channelId)

\* the hook requests held by the results of a log, in the order of the log
RECURSIVE HooksRequested(_)
HooksRequested(log) ==
    IF Len(log) = 0 THEN <<>> ELSE log[1][3] \o HooksRequested(Tail(log))

\* C11 (Spec): once hooksLog is published, the hooks the action results asked
\* for are the lifecycle's hooks, hook was invoked once for each of them and
\* hooksLog has one entry per hook.
C11_RequestedHooksDispatched ==
    Published("hooksLog")
    => LET requested == HooksRequested(lifecycle.actionsLog)
       IN  /\ lifecycle.hooks = requested
           /\ Cardinality(CallsOf("hook")) = Len(requested)
           /\ Len(lifecycle.hooksLog) = Len(requested)

\* C12 (SpecHook): the callback tool of a hook is invoked only over an open
\* session to the hook server, and a delivered hook has had such a session.
C12_HookCallbackOverSession ==
    \A i \in CallsOf("hook") :
        /\ (calls[i].invoked /\ calls[i].state = "calling") => calls[i].session = "open"
        /\ calls[i].state = "done" => calls[i].session \in {"open", "closed"}

\* what the caller of a settled call holds: the container, when the call
\* returned it (lines 347, 554); only the Error, when it threw (lines 349, 556)
HoldsContainer(r) == r.how \in {"return", "timeout", "streamError"}

\* C13 (Spec): the caller of a call that rejected after the base publish holds
\* the container, and its value is the last published one.
C13_RejectedCallKeepsLifecycle ==
    (callState = "rejected" /\ hasLifecycle)
    => /\ HoldsContainer(returned)
       /\ returned.value = lifecycle

\* C14 (Spec): an observer that has subscribed, at whatever time after the
\* call returned, has received the value the container holds now: the current
\* value at its subscription and every value published since.
C14_LateSubscriberGetsCurrent ==
    observer.subscribed
    => /\ hasLifecycle
       /\ observer.last = lifecycle

C14_Witness ==
    /\ observer.subscribed
    /\ returned.how = "timeout"
    /\ Len(publishes) > Len(returned.publishes)
    /\ Published("postProcessLog")
    /\ observer.last.postProcessLog # <<>>

IdentityFields ==
    {"daemonPubkey", "daemonName", "messageId", "message", "createdAt", "approval",
     "channelId", "identityPrompt"}

\* C15 (Spec): from the base publish on, no step removes a field of the
\* lifecycle value or changes one of its identity fields, and the identity
\* fields that the base publish sets from the daemon stay set.
C15_FieldsKept ==
    [][hasLifecycle
       => /\ DOMAIN lifecycle' = DOMAIN lifecycle
          /\ \A f \in IdentityFields : lifecycle'[f] = lifecycle[f]
          /\ lifecycle'.daemonName = character.name
          /\ lifecycle'.daemonPubkey = keypair.publicKey]_vars

C15_Witness ==
    /\ returned.how = "timeout"
    /\ Len(publishes) > Len(returned.publishes) + 1
    /\ lifecycle.messageId = nanoid(1)

\* the number of publishes of a field
PublishCount(field) == Cardinality({k \in 1..Len(publishes) : publishes[k] = field})

\* C16 (Spec): in messageWithTools the output published with the k-th chunk
\* is the sequence of the first k chunks of the stream, in arrival order.
C16_OutputIsRunningTotal ==
    (kind = "messageWithTools" /\ hasLifecycle)
    => /\ lifecycle.output = streamOutput
       /\ PublishCount("output") = Len(lifecycle.output)
       /\ \A k \in 1..Len(lifecycle.output) : lifecycle.output[k] = <<"chunk", k>>

C16_Witness ==
    /\ kind = "messageWithTools"
    /\ PublishCount("output") = 2
    /\ lifecycle.output = <<(<<"chunk", 1>>), (<<"chunk", 2>>)>>

\* C17 (SpecEntry): a call on a daemon without model providers and without
\* llm override is rejected with the wrapped "No model provider added", and
\* no lifecycle is created, nothing is published and no tool is called.
C17_NoProviderRejected ==
    (callState # "none" /\ Len(models) = 0 /\ ~opts.llm.present)
    => /\ callState = "rejected"
       /\ callError = Wrap(<<"No model provider added">>)
       /\ ~hasLifecycle
       /\ publishes = <<>>
       /\ calls = <<>>
       /\ remoteCalls = 0
       /\ pc = "failed"

C17_Witness ==
    /\ kind = "messageWithTools"
    /\ Len(models) = 0
    /\ ~opts.llm.present
    /\ callState = "rejected"

\* the fields of a resolved configuration that are empty, in the order of
\* the checks
MissingFields(cfg) ==
    SelectSeq(<<"provider", "model", "apiKey", "endpoint">>, LAMBDA f : Falsy(cfg[f]))

MissingFieldError(f) ==
    CASE f = "provider" -> <<"No LLM provider chosen">>
      [] f = "model" -> <<"No LLM model chosen">>
      [] f = "apiKey" -> <<"No LLM API key chosen">>
      [] f = "endpoint" -> <<"No LLM endpoint chosen">>

\* C18 (SpecEntry): a call with a provider registered or an llm override is
\* rejected with the error of the first empty field among the resolved
\* provider, model, apiKey, endpoint, without lifecycle, publish or remote
\* call; when none is empty the base publish is made.
C18_FirstMissingFieldNamed ==
    (callState # "none" /\ (Len(models) > 0 \/ opts.llm.present))
    => LET missing == MissingFields(ChosenLlm(models, opts.llm))
       IN  IF Len(missing) > 0
           THEN /\ callState = "rejected"
                /\ callError = Wrap(MissingFieldError(missing[1]))
                /\ ~hasLifecycle
                /\ publishes = <<>>
                /\ calls = <<>>
                /\ remoteCalls = 0
           ELSE hasLifecycle

C18_Witness ==
    /\ callState = "rejected"
    /\ opts.llm.present
    /\ MissingFields(ChosenLlm(models, opts.llm)) = <<"model", "apiKey", "endpoint">>
    /\ callError = Wrap(<<"No LLM model chosen">>)

ProviderNamesOf(ms) == {ms[i].provider : i \in 1..Len(ms)}

\* C19 (SpecEntry): a step that changes the registry either appends one entry
\* of a name that was not there, or changes one entry in place, name and
\* position kept; afterwards no two entries have the same name.
C19_OneEntryPerProvider ==
    [][models' # models
       => /\ \A i, j \in 1..Len(models') :
                models'[i].provider = models'[j].provider => i = j
          /\ \/ /\ Len(models') = Len(models) + 1
                /\ SubSeq(models', 1, Len(models)) = models
                /\ models'[Len(models')].provider \notin ProviderNamesOf(models)
             \/ /\ Len(models') = Len(models)
                /\ \E i \in 1..Len(models) :
                      /\ models'[i].provider = models[i].provider
                      /\ \A j \in 1..Len(models) : j # i => models'[j] = models[j]]_vars

C19_Witness ==
    /\ registrations = 3
    /\ Len(models) = 2
    /\ models[1].provider = "openai"
    /\ models[1].models = <<>>

\* C20 (Spec): from the base publish on, the lifecycle value has the text of
\* the call as message and the name of the character as daemonName, and so
\* has the value of the container a call returned.
C20_MessageAndNameKept ==
    /\ hasLifecycle
       => /\ lifecycle.message = message
          /\ lifecycle.daemonName = character.name
    /\ HoldsContainer(returned)
       => /\ returned.value.message = message
          /\ returned.value.daemonName = character.name

C20_Witness ==
    /\ kind = "message"
    /\ returned.how = "return"
    /\ returned.value.message = "Hello world"
    /\ Published("postProcessLog")

\* the key of opts.stages that switches the calls of a role
StageKey(stage) == IF stage = "action" THEN "actions" ELSE stage

\* opts.stages[key] is false
SwitchedOff(stage) ==
    /\ StageKey(stage) \in DOMAIN opts.stages
    /\ opts.stages[StageKey(stage)] = FALSE

ToolsOf(stage) == {t \in 1..Len(tools) : tools[t].type = stage}

\* C21 (Spec): a stage switched off in opts.stages calls no tool and leaves its
\* field at the base value, unpublished (with actions off no hook is called and
\* hooksLog stays at its base value too); a stage not switched off, which is
\* every stage by default, has called each of its tools once and published its
\* field when the pipeline is done, and the prompt is published and after
\* message so is the output, whatever other stage is off.
C21_StagesToggle ==
    hasLifecycle
    => /\ \A stage \in {"context", "action", "postProcess"} :
            SwitchedOff(stage)
            => /\ CallsOf(stage) = {}
               /\ ~Published(LogField(stage))
               /\ lifecycle[LogField(stage)] = <<>>
       /\ SwitchedOff("action")
            => /\ CallsOf("hook") = {}
               /\ ~Published("hooksLog")
               /\ lifecycle.hooksLog = <<>>
       /\ pc = "done"
            => /\ Published("generatedPrompt")
               /\ kind = "message" => Published("output")
               /\ \A stage \in {"context", "action", "postProcess"} :
                     ~SwitchedOff(stage)
                     => /\ Published(LogField(stage))
                        /\ Cardinality(CallsOf(stage)) = Cardinality(ToolsOf(stage))
                        /\ Len(lifecycle[LogField(stage)]) = Cardinality(ToolsOf(stage))

C21_Witness ==
    /\ pc = "done"
    /\ SwitchedOff("action")
    /\ ToolsOf("action") # {}
    /\ ~SwitchedOff("postProcess")
    /\ ToolsOf("postProcess") # {}
    /\ Len(lifecycle.postProcessLog) = 1

\* the discovery calls position i of which got an answer
Answered(i) == calls[i].stage = "discovery" /\ calls[i].result.kind # "none"

\* C22 (SpecTools), as claimed: a discovery that fails after the server has
\* answered carries the text of the answer in its error.
C22_FailureCarriesText ==
    \A i \in 1..Len(calls) :
        (Answered(i) /\ calls[i].state = "failed")
        => calls[i].error = <<"Error", calls[i].result>>

\* C22 (SpecTools), amended: the discovery the server answers fails exactly
\* when the text contains "Error" or is not the JSON of a tool list; it leaves
\* the registry as it was; the error carries the text when the text contains
\* "Error", and is the parser's error otherwise.
C22_DiscoveryFailure ==
    [][\A i \in 1..Len(calls) :
          (/\ calls[i].stage = "discovery"
           /\ calls[i].state = "calling"
           /\ calls'[i].state \in {"done", "failed"}
           /\ calls'[i].result.kind # "none")
          => LET text == calls'[i].result
             IN  /\ calls'[i].state = "failed"
                    <=> (text.mentionsError \/ text.kind # "json")
                 /\ text.mentionsError => calls'[i].error = <<"Error", text>>
                 /\ (~text.mentionsError /\ text.kind # "json")
                    => calls'[i].error[1] = "SyntaxError"
                 /\ calls'[i].state = "failed" => tools' = tools]_vars

C22_Witness ==
    \E i \in 1..Len(calls) :
        /\ Answered(i)
        /\ calls[i].state = "failed"
        /\ calls[i].result.kind = "json"
        /\ Len(calls[i].result.tools) = 2
        /\ calls[i].error = <<"Error", calls[i].result>>
        /\ tools = <<>>

\* C23 (SpecTools): the step in which a discovery succeeds appends the tools of
\* the answer to the registry, each once and in the order of the answer, after
\* the tools that were registered before.
C23_DiscoveryAppends ==
    [][\A i \in 1..Len(calls) :
          (/\ calls[i].stage = "discovery"
           /\ calls[i].state = "calling"
           /\ calls'[i].state = "done")
          => tools' = tools \o calls'[i].result.tools]_vars

C23_Witness ==
    \E i \in 1..Len(calls) :
        /\ Answered(i)
        /\ calls[i].state = "done"
        /\ Len(calls[i].result.tools) = 2
        /\ calls[i].result.tools[1] # calls[i].result.tools[2]
        /\ Len(tools) = 3
        /\ tools[2] = calls[i].result.tools[1]
        /\ tools[3] = calls[i].result.tools[2]

\* C24 (SpecTools): a step of addSingleToolFromProvider makes the registry one
\* longer, the new entry being last and a descriptor the host gave, the entries
\* before it unchanged, also when an entry of the same server and name is
\* already there.
C24_SingleToolAppended ==
    [][(tools' # tools /\ calls' = calls)
       => /\ Len(tools') = Len(tools) + 1
          /\ SubSeq(tools', 1, Len(tools)) = tools
          /\ tools'[Len(tools')] \in Descriptors]_vars

C24_Witness ==
    /\ calls = <<>>
    /\ Len(tools) = 2
    /\ tools[1].serverUrl = tools[2].serverUrl
    /\ tools[1].toolName = tools[2].toolName
    /\ tools[1].description # tools[2].description

\* C25 (SpecHook): a hook whose daemonTool is not "sign" raises no error of
\* its own (the only error is that of the request to the callback tool): its
\* callback tool is invoked as for any hook, with no daemonOutput.
C25_UnknownCapabilityIgnored ==
    \A i \in CallsOf("hook") :
        calls[i].tool.daemonTool # "sign"
        => /\ calls[i].invoked
           /\ calls[i].args.daemonOutput = NoOutput
           /\ calls[i].error \in {NoError, <<"hook request failed">>}

C25_Witness ==
    \E i \in CallsOf("hook") :
        /\ calls[i].tool.daemonTool = "encrypt"
        /\ calls[i].invoked
        /\ calls[i].args.daemonOutput = NoOutput
        /\ calls[i].error = NoError

\* C26 (SpecApproval): two calls of generateApproval with the same message,
\* createdAt and messageId, one without channelId and one with the empty
\* string, return the same signature.
C26_ChannelCanonical ==
    \A i, j \in 1..Len(approvals) :
        (/\ approvals[i].message = approvals[j].message
         /\ approvals[i].createdAt = approvals[j].createdAt
         /\ approvals[i].messageId = approvals[j].messageId
         /\ approvals[i].channelId = Undefined
         /\ approvals[j].channelId = "")
        => approvals[i].approval = approvals[j].approval

C26_Witness ==
    /\ Len(approvals) = 2
    /\ approvals[1].message = approvals[2].message
    /\ approvals[1].createdAt = approvals[2].createdAt
    /\ approvals[1].messageId = approvals[2].messageId
    /\ approvals[1].channelId = Undefined
    /\ approvals[2].channelId = ""
    /\ approvals[1].approval = approvals[2].approval

\* C27 (Spec): a call whose provider is neither openai nor openrouter never
\* resolves, never publishes an output and calls no action or postProcess
\* tool; once the prompt is published it has been rejected with the wrapped
\* error of the unsupported provider.  This holds for both entry points.
C27_UnsupportedProviderRejected ==
    (hasLifecycle /\ llmCfg.provider \notin {"openai", "openrouter"})
    => /\ callState # "resolved"
       /\ ~Published("output")
       /\ lifecycle.output = <<>>
       /\ CallsOf("action") = {}
       /\ CallsOf("postProcess") = {}
       /\ Published("generatedPrompt")
          => /\ callState = "rejected"
             /\ callError = Wrap(<<"Error generating text: ",
                                   <<"Unsupported provider: ", llmCfg.provider>>>>)

C27_Witness ==
    /\ kind = "messageWithTools"
    /\ llmCfg.provider = "anthropic"
    /\ Published("generatedPrompt")
    /\ callState = "rejected"
    /\ ToolsOf("action") # {}
    /\ ToolsOf("context") # {}

\* the declared parameters of a tool whose argument has another type: a
\* missing argument has the type undefined; object is the type typeof gives,
\* which null and an array have too; a declared type outside the five is
\* matched by every argument
Mismatches(tool, args) ==
    {k \in 1..Len(tool.parameters) :
        LET parameter == tool.parameters[k]
            given == IF parameter.name \in DOMAIN args THEN args[parameter.name]
                     ELSE "undefined"
        IN  \/ /\ parameter.type \in {"string", "number", "boolean"}
               /\ given # parameter.type
            \/ parameter.type = "array" /\ given # "array"
            \/ parameter.type = "object" /\ given \notin {"object", "array", "null"}}

\* C28 (SpecCallTool): a call of callTool that has left the connect step has
\* invoked the remote tool exactly when no declared parameter has an argument
\* of another type; otherwise it has failed without invoking, and the error
\* names the first such parameter in the order of declaration; a call that
\* returned has the result of the remote tool.
C28_ValidatedInOrder ==
    \A i \in CallsOf("direct") :
        LET call == calls[i]
            bad == Mismatches(call.tool, call.args)
        IN  /\ call.invoked => bad = {}
            /\ (call.state # "connecting" /\ call.error # <<"connect failed">>)
               => (call.invoked <=> bad = {})
            /\ (bad # {} /\ call.state # "connecting" /\ call.error # <<"connect failed">>)
               => LET k == CHOOSE j \in bad : \A l \in bad : j <= l
                  IN  /\ call.state = "failed"
                      /\ call.error[1] = call.tool.parameters[k].name
            /\ call.state = "done" => call.result = <<"result", i, <<>>>>

C28_Witness ==
    \E i \in CallsOf("direct") :
        /\ Len(calls[i].tool.parameters) = 2
        /\ Cardinality(Mismatches(calls[i].tool, calls[i].args)) = 2
        /\ calls[i].state = "failed"
        /\ ~calls[i].invoked
        /\ calls[i].error[1] = "name"

\* C29 (Spec): when message has resolved, the value and the publishes of the
\* returned container are the current ones, so nothing was published after the
\* return; with every stage enabled the publishes were base, context,
\* generatedPrompt, output, actionsLog, hooksLog, postProcessLog in this order;
\* and output is not published while the generation call has not returned.
C29_MessageReturnsFinalState ==
    kind = "message"
    => /\ callState = "resolved"
          => /\ returned.how = "return"
             /\ returned.publishes = publishes
             /\ returned.value = lifecycle
             /\ pc = "done"
             /\ (\A stage \in {"context", "action", "postProcess"} : ~SwitchedOff(stage))
                => publishes = <<"base", "context", "generatedPrompt", "output",
                                 "actionsLog", "hooksLog", "postProcessLog">>
       /\ pc = "awaitGen" => ~Published("output")
       /\ PublishCount("output") <= 1

C29_Witness ==
    /\ kind = "message"
    /\ callState = "resolved"
    /\ DOMAIN opts.stages = {}
    /\ Len(calls) = 2
    /\ observer.subscribed
    /\ Len(publishes) = 7

\* the stages whose calls the completion handler of the stream starts
HandlerStages == {"action", "postProcess"}

\* C30 (Spec): when messageWithTools returned on the timeout while the
\* completion handler was waiting for the calls of a stage, and all these calls
\* have since returned, the stage's field is published with their results,
\* after the return.
C30_TimeoutDoesNotCancel ==
    \A stage \in HandlerStages :
        (/\ returned.how = "timeout"
         /\ returned.pc = AwaitPc(stage)
         /\ \A i \in CallsOf(stage) : calls[i].state = "done")
        => /\ Published(LogField(stage))
           /\ LogField(stage) \notin Range(returned.publishes)
           /\ Len(lifecycle[LogField(stage)]) = Cardinality(CallsOf(stage))
           /\ returned.value[LogField(stage)] = <<>>

C30_Witness ==
    /\ returned.how = "timeout"
    /\ returned.pc = "awaitActions"
    /\ Published("actionsLog")
    /\ "actionsLog" \notin Range(returned.publishes)
    /\ Len(lifecycle.actionsLog) = 1
    /\ Published("postProcessLog")

\* C31 (SpecLive), as claimed: every call of messageWithTools that is pending
\* settles.
C31_AlwaysSettles ==
    (kind = "messageWithTools" /\ callState = "pending") ~> (callState # "pending")

\* C31 (SpecLive), amended: every call of messageWithTools that is pending
\* and past the context stage settles, whether or not the stream completes or
\* the server of an action or postProcess tool answers; a call that waits for
\* a context tool has no timer yet and settles only when the servers answer.
C31_SettlesAfterContext ==
    (kind = "messageWithTools" /\ callState = "pending" /\ pc # "awaitContext")
    ~> (callState # "pending")

C31_Witness ==
    /\ kind = "messageWithTools"
    /\ callState = "resolved"
    /\ returned.how = "timeout"
    /\ returned.pc = "awaitActions"
    /\ \E i \in CallsOf("action") : InFlight(i)

\* the fields published by a step, in order
NewPublishes == SubSeq(publishes', Len(publishes) + 1, Len(publishes'))

\* C32 (Spec): in messageWithTools a step changes only the fields of the
\* lifecycle value it publishes; output is published only while the stream is
\* open, alone, and before any action tool is called or actionsLog is
\* published; so in the order of the publishes no output comes after a stage
\* log of the completion handler.
C32_PublishesDoNotInterleave ==
    [][(kind = "messageWithTools" /\ hasLifecycle)
       => /\ \A f \in DOMAIN lifecycle :
                lifecycle'[f] # lifecycle[f] => f \in Range(NewPublishes)
          /\ "output" \in Range(NewPublishes)
             => /\ NewPublishes = <<"output">>
                /\ streamState = "open"
                /\ CallsOf("action") = {}
                /\ ~Published("actionsLog")
          /\ \A k \in 1..Len(publishes') :
                publishes'[k] = "output"
                => \A j \in 1..(k - 1) :
                      publishes'[j] \notin {"actionsLog", "hooksLog", "postProcessLog"}]_vars

C32_Witness ==
    /\ kind = "messageWithTools"
    /\ PublishCount("output") = 2
    /\ Published("actionsLog")
    /\ Len(lifecycle.actionsLog) = 1
    /\ Published("postProcessLog")
    /\ returned.how = "timeout"

\* the registered providers of a name
Registered(name) == {i \in 1..Len(models) : models[i].provider = name}

\* the value of a field an override leaves out: that of the registered
\* provider of the override's name, empty when there is none
FromRegistry(field) ==
    IF opts.llm[field] # Undefined THEN opts.llm[field]
    ELSE IF Registered(opts.llm.provider) = {} THEN ""
    ELSE models[CHOOSE i \in Registered(opts.llm.provider) :
                    \A j \in Registered(opts.llm.provider) : i <= j][field]

\* C33 (SpecEntry): a call with an override that names a provider and a model
\* takes an apiKey or endpoint the override leaves out from the registered
\* provider of that name and goes on to the base publish; when no provider of
\* that name is registered, or its value is empty, the call is rejected with
\* the error of the API key, and with the error of the endpoint when only
\* the endpoint is missing.
C33_OverrideFilledFromRegistry ==
    (/\ callState # "none"
     /\ opts.llm.present
     /\ opts.llm.provider # ""
     /\ opts.llm.model # "")
    => IF FromRegistry("apiKey") = ""
       THEN /\ callState = "rejected"
            /\ callError = Wrap(<<"No LLM API key chosen">>)
            /\ ~hasLifecycle
       ELSE IF FromRegistry("endpoint") = ""
       THEN /\ callState = "rejected"
            /\ callError = Wrap(<<"No LLM endpoint chosen">>)
            /\ ~hasLifecycle
       ELSE /\ hasLifecycle
            /\ llmCfg = [provider |-> opts.llm.provider, model |-> opts.llm.model,
                         apiKey |-> FromRegistry("apiKey"),
                         endpoint |-> FromRegistry("endpoint")]

C33_Witness ==
    /\ hasLifecycle
    /\ opts.llm.present
    /\ opts.llm.apiKey = Undefined
    /\ opts.llm.endpoint = Undefined
    /\ Len(models) = 2
    /\ models[1].provider = "anthropic"
    /\ models[2].provider = "openai"
    /\ llmCfg.apiKey = "key"
    /\ llmCfg.endpoint = "https://api.openai.com/v1"

\* a tool that declares a parameter of a checked type under a name the object
\* {lifecycle, args} does not have
DeclaresOtherName(tool) ==
    \E k \in 1..Len(tool.parameters) :
        /\ tool.parameters[k].type \in {"string", "number", "boolean", "array", "object"}
        /\ tool.parameters[k].name \notin {"lifecycle", "args"}

\* C34 (Spec): a call made by a stage for a tool that declares a checked
\* parameter under another name than lifecycle and args never invokes the
\* remote tool and never returns; when it has failed, message has rejected
\* (and so has messageWithTools when the stage is the context stage); a call
\* of message that resolved had no such tool in an enabled stage.
C34_StageToolsValidatedAgainstWrapper ==
    /\ \A i \in 1..Len(calls) :
          (calls[i].stage \in {"context", "action", "postProcess"}
           /\ DeclaresOtherName(calls[i].tool))
          => /\ ~calls[i].invoked
             /\ calls[i].state \in {"connecting", "failed"}
             /\ (calls[i].state = "failed" /\ (kind = "message" \/ calls[i].stage = "context"))
                => callState = "rejected"
    /\ (kind = "message" /\ callState = "resolved")
       => \A t \in 1..Len(tools) :
             (tools[t].type \in {"context", "action", "postProcess"}
              /\ DeclaresOtherName(tools[t]))
             => SwitchedOff(tools[t].type)

C34_Witness ==
    /\ kind = "message"
    /\ callState = "rejected"
    /\ \E i \in CallsOf("action") :
          /\ DeclaresOtherName(calls[i].tool)
          /\ calls[i].state = "failed"
          /\ calls[i].session = "open"
          /\ calls[i].error[1] = "query"
          /\ callError = Wrap(calls[i].error)

\* a call of callTool whose connect has resolved
Connected(i) == calls[i].state # "connecting" /\ calls[i].error # <<"connect failed">>

\* C35 (SpecCallTool): a call of callTool for a tool whose one parameter is
\* declared `object` and whose argument is null, an array or an object, or
\* whose one parameter has a declared type outside string, number, boolean,
\* array, object, passes the check whatever the argument: once connected it
\* has invoked the remote tool, with the arguments it was given, and it fails
\* only when the request does.
C35_LaxObjectAndUnknownTypes ==
    \A i \in CallsOf("direct") :
        LET call == calls[i]
            ps == call.tool.parameters
        IN  (/\ Len(ps) = 1
             /\ Connected(i)
             /\ \/ /\ ps[1].type = "object"
                   /\ ps[1].name \in DOMAIN call.args
                   /\ call.args[ps[1].name] \in {"null", "array", "object"}
                \/ ps[1].type \notin {"string", "number", "boolean", "array", "object"})
            => /\ call.invoked
               /\ call.args \in DirectArgs
               /\ call.state = "failed" => call.error = <<"request failed">>

C35_Witness ==
    \E i \in CallsOf("direct") :
        /\ Len(calls[i].tool.parameters) = 1
        /\ calls[i].tool.parameters[1].type = "object"
        /\ calls[i].args = [n \in {"name"} |-> "null"]
        /\ calls[i].invoked
        /\ calls[i].state = "done"

\* C36 (SpecTools): a discovery whose connect has resolved keeps its session
\* open, also after it has registered the tools or failed on the answer or on
\* the request; the number of open sessions is the number of these discoveries.
C36_DiscoverySessionLeftOpen ==
    /\ \A i \in CallsOf("discovery") : Connected(i) => calls[i].session = "open"
    /\ openSessions = Cardinality({i \in CallsOf("discovery") : Connected(i)})

\* a discovery that failed on the answer, its session open
C36_Witness ==
    /\ openSessions = 1
    /\ \E i \in CallsOf("discovery") :
          /\ calls[i].state = "failed"
          /\ calls[i].error = <<"Error", calls[i].result>>
          /\ calls[i].session = "open"

\* whether a stage has started, given the calls, the pc and the publishes
Begun(cs, p, ps, stage) ==
    \/ p = AwaitPc(stage)
    \/ LogField(stage) \in Range(ps)
    \/ \E i \in 1..Len(cs) : cs[i].stage = stage

StageCallsIn(cs, stage) == {i \in 1..Len(cs) : cs[i].stage = stage}

\* C37 (SpecRegister): the step that starts a stage calls the tools of the
\* stage's role that are in the registry at that step, those registered after
\* the call's entry included; a stage that has started makes no further call,
\* so a tool of its role registered later is not called; the tools handed to
\* the model are the ondemand tools of the registry at the step that starts the
\* stream, and do not change after it.
C37_RegistryReadPerStage ==
    [][/\ \A stage \in {"context", "action", "postProcess"} :
            /\ (~Begun(calls, pc, publishes, stage) /\ Begun(calls', pc', publishes', stage))
               => /\ {calls'[i].toolIdx : i \in StageCallsIn(calls', stage)} = ToolsOf(stage)
                  /\ \A i \in StageCallsIn(calls', stage) :
                        calls'[i].tool = tools[calls'[i].toolIdx]
            /\ Begun(calls, pc, publishes, stage)
               => StageCallsIn(calls', stage) = StageCallsIn(calls, stage)
       /\ (streamState = "none" /\ streamState' # "none")
          => exposedTools' = SelectSeq(tools, LAMBDA t : t.type = "ondemand")
       /\ streamState # "none" => exposedTools' = exposedTools]_vars

C37_Witness ==
    /\ kind = "messageWithTools"
    /\ pc = "done"
    /\ Len(tools) = 2
    /\ tools[1].toolName = "late" /\ tools[1].type = "ondemand"
    /\ tools[2].toolName = "late" /\ tools[2].type = "action"
    /\ exposedTools = <<>>
    /\ \E i \in CallsOf("action") : calls[i].toolIdx = 2 /\ calls[i].state = "done"
    /\ Len(lifecycle.actionsLog) = 1

\* C38 (Spec): the step in which message is rejected changes no call but the
\* one that failed; after it the calls in flight can still connect and return,
\* a call that returns closes its session, and no step changes the lifecycle
\* value, the publishes or the error of the call.
C38_RejectionLeavesCallsRunning ==
    [][kind = "message"
       => /\ (callState = "pending" /\ callState' = "rejected")
             => /\ Len(calls') = Len(calls)
                /\ Cardinality({j \in 1..Len(calls) : calls'[j] # calls[j]}) <= 1
          /\ callState = "rejected"
             => /\ lifecycle' = lifecycle
                /\ publishes' = publishes
                /\ callState' = "rejected"
                /\ callError' = callError
                /\ \A j \in 1..Len(calls) :
                      /\ calls[j].state = "connecting" => ENABLED ConnectResolved(j)
                      /\ calls[j].state = "calling" => ENABLED RequestResolved(j, <<>>)
                      /\ (calls[j].state = "calling" /\ calls'[j].state = "done")
                         => /\ calls'[j].session = "closed"
                            /\ calls'[j].result[2] = j]_vars

C38_Witness ==
    /\ kind = "message"
    /\ callState = "rejected"
    /\ ~Published("context")
    /\ \E i, j \in CallsOf("context") :
          /\ calls[i].state = "failed"
          /\ callError = Wrap(calls[i].error)
          /\ calls[j].state = "done"
          /\ calls[j].session = "closed"
          /\ doneOrder = <<j>>
    /\ lifecycle.context = <<>>
    /\ openSessions = 0

\* the lines under "# Tools" of a prompt
ToolsSection(prompt) == prompt[10]

=============================================================================
